---------------------------- MODULE Spec2Model ----------------------------
(***************************************************************************)
(* Floyd-Steinberg dithering for the Spectra E6 six-colour panel, as       *)
(* implemented in src/src/familydashboard/components/dithering.py.         *)
(*                                                                         *)
(* The working buffer of the pass holds float32 values.  Every value it    *)
(* can hold is a dyadic rational (an 8-bit integer plus sums of k/16       *)
(* multiples of earlier errors), so the model keeps each channel as an     *)
(* exact dyadic rational <<hi, lo>> = hi + lo / FracUnit with              *)
(* 0 <= lo < FracUnit.  The arithmetic below is exact: it is the code's    *)
(* arithmetic wherever float32 does not round, which is every value whose  *)
(* significand fits 24 bits.                                               *)
(***************************************************************************)
EXTENDS Integers, Sequences, FiniteSets, TLC

VARIABLES
    cfg,              \* the instance: preserve_bw, thresholds, bw_tolerance
    width, height,    \* img_array.shape[:2]
    original_array,   \* copy of the input raster, integer channels
    img_array,        \* working buffer, dyadic rational channels
    dithered,         \* output raster, uint8 channels
    palette_indices,  \* output index map, uint8
    x, y,             \* loop position of floyd_steinberg_dither
    pc,               \* "call", "loop", "done", "analyzed", "saved", "idle"
    color_counts,     \* result of analyze_color_distribution
    q_pixel,          \* argument of a direct call of a pure function
    q_result,         \* its result
    visited,          \* the coordinates the loop has processed, in order
    prev_return,      \* input and return value of the preceding dithering call
    saved             \* what process_dashboard has written to its output files

vars == <<cfg, width, height, original_array, img_array, dithered,
          palette_indices, x, y, pc, color_counts, q_pixel, q_result,
          visited, prev_return, saved>>

None == <<>>

-----------------------------------------------------------------------------
(* Bounds of the model.                                                    *)

MaxWidth == 3

MaxHeight == 2

-----------------------------------------------------------------------------
(* Exact dyadic arithmetic standing for the float32 arithmetic of numpy.   *)

HalfUnit == 16384

FracUnit == HalfUnit * HalfUnit

\* a channel value hi + lo/FracUnit in normal form
Norm(hi, lo) == <<hi + (lo \div FracUnit), lo % FracUnit>>

\* uint8 -> float32 of np.array(image, dtype=np.float32)
FromInt(n) == <<n, 0>>

FAdd(a, b) == Norm(a[1] + b[1], a[2] + b[2])

FNeg(a) == Norm(-a[1], -a[2])

FSub(a, b) == FAdd(a, FNeg(b))

\* a * (k / 16.0)
FTimesSixteenths(a, k) ==
    LET hk == a[1] * k
    IN  Norm(hk \div 16, (hk % 16) * (FracUnit \div 16) + ((a[2] * k) \div 16))

\* a wide value A + B/FracUnit + C/FracUnit^2 in normal form
WNorm(A, B, C) ==
    LET b1 == B + (C \div FracUnit)
    IN  <<A + (b1 \div FracUnit), b1 % FracUnit, C % FracUnit>>

\* a ** 2, exact
FSquare(a) ==
    LET w   == a[1]
        fa  == a[2] \div HalfUnit
        fb  == a[2] % HalfUnit
        tw  == 2 * w * fa
        ab2 == 2 * fa * fb
    IN  WNorm(w * w + (tw \div HalfUnit),
              (tw % HalfUnit) * HalfUnit + 2 * w * fb + fa * fa + (ab2 \div HalfUnit),
              (ab2 % HalfUnit) * HalfUnit + fb * fb)

WAdd(p, q) == WNorm(p[1] + q[1], p[2] + q[2], p[3] + q[3])

WLess(p, q) ==
    \/ p[1] < q[1]
    \/ p[1] = q[1] /\ p[2] < q[2]
    \/ p[1] = q[1] /\ p[2] = q[2] /\ p[3] < q[3]

Abs(n) == IF n < 0 THEN -n ELSE n

\* float32 -> uint8 of astype(np.uint8), on an integral value
ToUint8(n) == n % 256

PixelFromInt(p) == <<FromInt(p[1]), FromInt(p[2]), FromInt(p[3])>>

PixelSub(a, b) == <<FSub(a[1], b[1]), FSub(a[2], b[2]), FSub(a[3], b[3])>>

PixelAdd(a, b) == <<FAdd(a[1], b[1]), FAdd(a[2], b[2]), FAdd(a[3], b[3])>>

PixelTimesSixteenths(e, k) ==
    <<FTimesSixteenths(e[1], k), FTimesSixteenths(e[2], k), FTimesSixteenths(e[3], k)>>

PixelToUint8(p) == <<ToUint8(p[1]), ToUint8(p[2]), ToUint8(p[3])>>

ZeroError == PixelFromInt(<<0, 0, 0>>)

-----------------------------------------------------------------------------
(* float64 arithmetic of analyze_color_distribution, with IEEE 754         *)
(* round-half-to-even.  A positive float64 is sig * 2^exp where sig is the  *)
(* 53-bit significand held as four 14-bit limbs <<a, b, c, d>> =            *)
(* a * 2^42 + b * 2^28 + c * 2^14 + d, with 2^10 <= a < 2^11.               *)

F64Zero == [sig |-> <<0, 0, 0, 0>>, exp |-> 0]

\* number of binary digits of n >= 0
RECURSIVE BitLen(_)
BitLen(n) == IF n = 0 THEN 0 ELSE 1 + BitLen(n \div 2)

\* the five limbs of sig * k, for 0 < k <= 2^13
MulLimbs(sig, k) ==
    LET t4 == sig[4] * k
        t3 == sig[3] * k + (t4 \div HalfUnit)
        t2 == sig[2] * k + (t3 \div HalfUnit)
        t1 == sig[1] * k + (t2 \div HalfUnit)
    IN  <<t1 \div HalfUnit, t1 % HalfUnit, t2 % HalfUnit, t3 % HalfUnit, t4 % HalfUnit>>

\* the float64 nearest to (P + f) * 2^e, ties to even, where the five-limb
\* integer P has 53 + d binary digits (d <= 13), 0 <= f < 1 and f # 0 iff
\* sticky (sticky only with d > 0)
RoundToF64(P, d, sticky, e) ==
    LET D  == 2 ^ d
        U  == HalfUnit \div D
        q1 == (P[2] \div D) + (P[1] % D) * U
        q2 == (P[3] \div D) + (P[2] % D) * U
        q3 == (P[4] \div D) + (P[3] % D) * U
        q4 == (P[5] \div D) + (P[4] % D) * U
        low       == P[5] % D
        half      == D \div 2
        round_bit == d > 0 /\ low >= half
        rest      == sticky \/ (d > 0 /\ (low % half) # 0)
        up        == round_bit /\ (rest \/ q4 % 2 = 1)
        s4 == q4 + (IF up THEN 1 ELSE 0)
        s3 == q3 + (s4 \div HalfUnit)
        s2 == q2 + (s3 \div HalfUnit)
        s1 == q1 + (s2 \div HalfUnit)
    IN  IF s1 = 2048
        THEN [sig |-> <<1024, 0, 0, 0>>, exp |-> e + d + 1]
        ELSE [sig |-> <<s1, s2 % HalfUnit, s3 % HalfUnit, s4 % HalfUnit>>,
              exp |-> e + d]

\* the least s with 2^9 <= c * 2^s / t
RECURSIVE DivShift(_, _, _)
DivShift(c, t, s) == IF c * (2 ^ s) >= t * 512 THEN s ELSE DivShift(c, t, s + 1)

\* count / total_pixels in float64, for integers 0 <= c <= t, t > 0: long
\* division to 66 binary digits and a remainder, then rounding
F64Div(c, t) ==
    IF c = 0
    THEN F64Zero
    ELSE LET s  == DivShift(c, t, 0)
             n0 == c * (2 ^ s)
             n1 == (n0 % t) * HalfUnit
             n2 == (n1 % t) * HalfUnit
             n3 == (n2 % t) * HalfUnit
             n4 == (n3 % t) * HalfUnit
         IN  RoundToF64(<<n0 \div t, n1 \div t, n2 \div t, n3 \div t, n4 \div t>>,
                        13, (n4 % t) # 0, (-s) - 56)

\* v * k in float64, for an integer 0 < k <= 2^13
F64TimesInt(v, k) ==
    IF v.sig[1] = 0
    THEN F64Zero
    ELSE LET P == MulLimbs(v.sig, k)
             d == IF P[1] > 0 THEN BitLen(P[1]) + 3 ELSE BitLen(P[2]) - 11
         IN  RoundToF64(P, d, FALSE, v.exp)

-----------------------------------------------------------------------------
(* The palette, in declaration order.                                      *)

PALETTE_NAMES == <<"black", "white", "red", "yellow", "green", "blue">>

E6_PALETTE ==
    [black  |-> <<0, 0, 0>>,     white |-> <<255, 255, 255>>,
     red    |-> <<255, 0, 0>>,   yellow |-> <<255, 255, 0>>,
     green  |-> <<0, 255, 0>>,   blue  |-> <<0, 0, 255>>]

PaletteIdx == 0 .. (Len(PALETTE_NAMES) - 1)

PALETTE_ARRAY == [i \in PaletteIdx |-> E6_PALETTE[PALETTE_NAMES[i + 1]]]

BLACK_THRESHOLD == 30

WHITE_THRESHOLD == 225

-----------------------------------------------------------------------------
(* Construction of the two dithering classes.                              *)

\* SpectraE6Dithering.__init__; the thresholds are the class attributes
SpectraE6Dithering(preserve_bw, bw_tolerance) ==
    [preserve_bw     |-> preserve_bw,
     bw_tolerance    |-> bw_tolerance,
     BLACK_THRESHOLD |-> BLACK_THRESHOLD,
     WHITE_THRESHOLD |-> WHITE_THRESHOLD]

\* variant: the white threshold mirrors the black threshold about 128
OptimizedE6DitheringAbout128(preserve_text, text_threshold) ==
    LET self == SpectraE6Dithering(preserve_text, 5)
    IN  IF preserve_text
        THEN [self EXCEPT !.BLACK_THRESHOLD = text_threshold,
                          !.WHITE_THRESHOLD = 256 - text_threshold]
        ELSE self

\* OptimizedE6Dithering.__init__
OptimizedE6Dithering(preserve_text, text_threshold) ==
    LET self == SpectraE6Dithering(preserve_text, 5)
    IN  IF preserve_text
        THEN [self EXCEPT !.BLACK_THRESHOLD = text_threshold,
                          !.WHITE_THRESHOLD = 255 - text_threshold]
        ELSE self

-----------------------------------------------------------------------------
(* Pure functions of the pipeline.                                         *)

\* np.sum((palette_color - pixel) ** 2) on an integer-valued pixel
IntSumSq(p, q) ==
    (p[1] - q[1]) * (p[1] - q[1]) + (p[2] - q[2]) * (p[2] - q[2])
        + (p[3] - q[3]) * (p[3] - q[3])

\* variant: the sum of squares itself, not its root, is held against the
\* tolerance
WithinToleranceNoRoot(sumsq, tolerance) == sumsq <= tolerance

\* distance <= tolerance, with distance = sqrt(sum of squares) >= 0
WithinTolerance(sumsq, tolerance) ==
    tolerance >= 0 /\ sumsq <= tolerance * tolerance

\* the for loop of is_exact_palette_match, from palette position idx on
RECURSIVE ExactMatchFrom(_, _, _)
ExactMatchFrom(pixel, tolerance, idx) ==
    IF idx \notin PaletteIdx
    THEN [is_match |-> FALSE, idx |-> None, color |-> None]
    ELSE IF WithinTolerance(IntSumSq(PALETTE_ARRAY[idx], pixel), tolerance)
         THEN [is_match |-> TRUE, idx |-> idx, color |-> PALETTE_ARRAY[idx]]
         ELSE ExactMatchFrom(pixel, tolerance, idx + 1)

\* variant: a match hands back the pixel it was given, not the palette entry
ExactMatchKeepsPixel(pixel, tolerance) ==
    LET m == ExactMatchFrom(pixel, tolerance, 0)
    IN  IF m.is_match THEN [m EXCEPT !.color = pixel] ELSE m

\* variant: a match hands back the palette entry after the matching one
ExactMatchNext(pixel, tolerance) ==
    LET m == ExactMatchFrom(pixel, tolerance, 0)
    IN  IF m.is_match
        THEN [m EXCEPT !.idx = (m.idx + 1) % 6,
                       !.color = PALETTE_ARRAY[(m.idx + 1) % 6]]
        ELSE m

is_exact_palette_match(pixel, tolerance) == ExactMatchFrom(pixel, tolerance, 0)

\* np.all(pixel <= threshold)
AllAtMost(pixel, threshold) ==
    pixel[1] <= threshold /\ pixel[2] <= threshold /\ pixel[3] <= threshold

\* np.all(pixel >= threshold)
AllAtLeast(pixel, threshold) ==
    pixel[1] >= threshold /\ pixel[2] >= threshold /\ pixel[3] >= threshold

\* variant: the threshold comparisons are strict
ShouldPreserveStrict(self, pixel) ==
    IF ~self.preserve_bw
    THEN [preserve |-> FALSE, color |-> None]
    ELSE IF pixel[1] < self.BLACK_THRESHOLD /\ pixel[2] < self.BLACK_THRESHOLD
            /\ pixel[3] < self.BLACK_THRESHOLD
    THEN [preserve |-> TRUE, color |-> <<0, 0, 0>>]
    ELSE IF pixel[1] > self.WHITE_THRESHOLD /\ pixel[2] > self.WHITE_THRESHOLD
            /\ pixel[3] > self.WHITE_THRESHOLD
    THEN [preserve |-> TRUE, color |-> <<255, 255, 255>>]
    ELSE LET m == is_exact_palette_match(pixel, self.bw_tolerance)
         IN  IF m.is_match
             THEN [preserve |-> TRUE, color |-> m.color]
             ELSE [preserve |-> FALSE, color |-> None]

\* variant: the white threshold is tested before the black threshold
ShouldPreserveWhiteFirst(self, pixel) ==
    IF ~self.preserve_bw
    THEN [preserve |-> FALSE, color |-> None]
    ELSE IF AllAtLeast(pixel, self.WHITE_THRESHOLD)
    THEN [preserve |-> TRUE, color |-> <<255, 255, 255>>]
    ELSE IF AllAtMost(pixel, self.BLACK_THRESHOLD)
    THEN [preserve |-> TRUE, color |-> <<0, 0, 0>>]
    ELSE LET m == is_exact_palette_match(pixel, self.bw_tolerance)
         IN  IF m.is_match
             THEN [preserve |-> TRUE, color |-> m.color]
             ELSE [preserve |-> FALSE, color |-> None]

\* variant: the thresholds and the palette match are applied whether or not
\* preservation is enabled
ShouldPreserveAlways(self, pixel) ==
    IF AllAtMost(pixel, self.BLACK_THRESHOLD)
    THEN [preserve |-> TRUE, color |-> <<0, 0, 0>>]
    ELSE IF AllAtLeast(pixel, self.WHITE_THRESHOLD)
    THEN [preserve |-> TRUE, color |-> <<255, 255, 255>>]
    ELSE LET m == is_exact_palette_match(pixel, self.bw_tolerance)
         IN  IF m.is_match
             THEN [preserve |-> TRUE, color |-> m.color]
             ELSE [preserve |-> FALSE, color |-> None]

should_preserve_pixel(self, pixel) ==
    IF ~self.preserve_bw
    THEN [preserve |-> FALSE, color |-> None]
    ELSE IF AllAtMost(pixel, self.BLACK_THRESHOLD)
    THEN [preserve |-> TRUE, color |-> <<0, 0, 0>>]
    ELSE IF AllAtLeast(pixel, self.WHITE_THRESHOLD)
    THEN [preserve |-> TRUE, color |-> <<255, 255, 255>>]
    ELSE LET m == is_exact_palette_match(pixel, self.bw_tolerance)
         IN  IF m.is_match
             THEN [preserve |-> TRUE, color |-> m.color]
             ELSE [preserve |-> FALSE, color |-> None]

\* np.sum((palette - pixel) ** 2, axis=1)[i]; the square root that follows is
\* strictly increasing, so the argmin is taken on the sums
Distance2(palette_color, pixel) ==
    LET d == PixelSub(PixelFromInt(palette_color), pixel)
    IN  WAdd(WAdd(FSquare(d[1]), FSquare(d[2])), FSquare(d[3]))

\* variant: the last position holding the minimum
RECURSIVE ArgMinLast(_, _, _, _)
ArgMinLast(distances, idx, best, best_d) ==
    IF idx \notin DOMAIN distances
    THEN best
    ELSE LET d == distances[idx]
         IN  IF ~WLess(best_d, d)
             THEN ArgMinLast(distances, idx + 1, idx, d)
             ELSE ArgMinLast(distances, idx + 1, best, best_d)

\* np.argmin: the first position holding the minimum (best_d = distances[best])
RECURSIVE ArgMinFrom(_, _, _, _)
ArgMinFrom(distances, idx, best, best_d) ==
    IF idx \notin DOMAIN distances
    THEN best
    ELSE LET d == distances[idx]
         IN  IF WLess(d, best_d)
             THEN ArgMinFrom(distances, idx + 1, idx, d)
             ELSE ArgMinFrom(distances, idx + 1, best, best_d)

\* variant: np.argmax in place of np.argmin
RECURSIVE ArgMaxFrom(_, _, _, _)
ArgMaxFrom(distances, idx, best, best_d) ==
    IF idx \notin DOMAIN distances
    THEN best
    ELSE LET d == distances[idx]
         IN  IF WLess(best_d, d)
             THEN ArgMaxFrom(distances, idx + 1, idx, d)
             ELSE ArgMaxFrom(distances, idx + 1, best, best_d)

FindFarthestPaletteColor(pixel, palette) ==
    LET distances   == [i \in DOMAIN palette |-> Distance2(palette[i], pixel)]
        farthest_idx == ArgMaxFrom(distances, 1, 0, distances[0])
    IN  [idx |-> farthest_idx, color |-> palette[farthest_idx]]

find_nearest_palette_color(pixel, palette) ==
    LET distances   == [i \in DOMAIN palette |-> Distance2(palette[i], pixel)]
        nearest_idx == ArgMinFrom(distances, 1, 0, distances[0])
    IN  [idx |-> nearest_idx, color |-> palette[nearest_idx]]

\* np.allclose(pc, new_pixel, rtol=0, atol=1)
AllClose(pcolor, new_pixel) ==
    /\ Abs(pcolor[1] - new_pixel[1]) <= 1
    /\ Abs(pcolor[2] - new_pixel[2]) <= 1
    /\ Abs(pcolor[3] - new_pixel[3]) <= 1

\* the index search for a preserved colour, from palette position idx on
RECURSIVE PreservedIdxFrom(_, _)
PreservedIdxFrom(new_pixel, idx) ==
    IF idx \notin PaletteIdx
    THEN 0
    ELSE IF AllClose(PALETTE_ARRAY[idx], new_pixel)
         THEN idx
         ELSE PreservedIdxFrom(new_pixel, idx + 1)

\* variant: the search is skipped and the default index kept
PreservedIdxDefault(new_pixel) == 0

PreservedIdx(new_pixel) == PreservedIdxFrom(new_pixel, 0)

\* img_array[py, px] += error * (k / 16.0)
AddWeighted(buf, py, px, error, k) ==
    [buf EXCEPT ![py][px] = PixelAdd(@, PixelTimesSixteenths(error, k))]

\* variant: the weights of the bottom and the bottom-left pixel are exchanged
DistributeErrorSwapped(buf, px, py, w, h, error) ==
    LET b1 == IF px < w - 1 THEN AddWeighted(buf, py, px + 1, error, 7) ELSE buf
        b2 == IF py < h - 1 THEN AddWeighted(b1, py + 1, px, error, 3) ELSE b1
        b3 == IF py < h - 1 /\ px > 0
              THEN AddWeighted(b2, py + 1, px - 1, error, 5) ELSE b2
        b4 == IF py < h - 1 /\ px < w - 1
              THEN AddWeighted(b3, py + 1, px + 1, error, 1) ELSE b3
    IN  b4

\* variant: the bottom-left update lacks its x > 0 guard, and index -1 of a
\* numpy row is its last column
DistributeErrorWrap(buf, px, py, w, h, error) ==
    LET b1 == IF px < w - 1 THEN AddWeighted(buf, py, px + 1, error, 7) ELSE buf
        b2 == IF py < h - 1 THEN AddWeighted(b1, py + 1, px, error, 5) ELSE b1
        b3 == IF py < h - 1
              THEN AddWeighted(b2, py + 1, (px - 1) % w, error, 3) ELSE b2
        b4 == IF py < h - 1 /\ px < w - 1
              THEN AddWeighted(b3, py + 1, px + 1, error, 1) ELSE b3
    IN  b4

\* variant: the bottom-left share goes to the left pixel of the same row
DistributeErrorBackward(buf, px, py, w, h, error) ==
    LET b1 == IF px < w - 1 THEN AddWeighted(buf, py, px + 1, error, 7) ELSE buf
        b2 == IF py < h - 1 THEN AddWeighted(b1, py + 1, px, error, 5) ELSE b1
        b3 == IF py < h - 1 /\ px > 0
              THEN AddWeighted(b2, py, px - 1, error, 3) ELSE b2
        b4 == IF py < h - 1 /\ px < w - 1
              THEN AddWeighted(b3, py + 1, px + 1, error, 1) ELSE b3
    IN  b4

\* the four guarded updates of the error distribution
DistributeError(buf, px, py, w, h, error) ==
    LET b1 == IF px < w - 1 THEN AddWeighted(buf, py, px + 1, error, 7) ELSE buf
        b2 == IF py < h - 1 THEN AddWeighted(b1, py + 1, px, error, 5) ELSE b1
        b3 == IF py < h - 1 /\ px > 0
              THEN AddWeighted(b2, py + 1, px - 1, error, 3) ELSE b2
        b4 == IF py < h - 1 /\ px < w - 1
              THEN AddWeighted(b3, py + 1, px + 1, error, 1) ELSE b3
    IN  b4

\* variant: a preserved pixel is snapped to its colour but its difference to
\* the working value is diffused like any other error
DecideLeaky(sp, old_pixel) ==
    IF sp.preserve /\ sp.color # None
    THEN [should_preserve |-> FALSE,
          new_pixel       |-> sp.color,
          palette_idx     |-> PreservedIdx(sp.color),
          error           |-> PixelSub(old_pixel, PixelFromInt(sp.color))]
    ELSE LET nr == find_nearest_palette_color(old_pixel, PALETTE_ARRAY)
         IN  [should_preserve |-> sp.preserve,
              new_pixel       |-> nr.color,
              palette_idx     |-> nr.idx,
              error           |-> PixelSub(old_pixel, PixelFromInt(nr.color))]

\* the branch of the loop body on the preservation verdict sp, for the pixel
\* with working value old_pixel: output colour, palette index, error
Decide(sp, old_pixel) ==
    IF sp.preserve /\ sp.color # None
    THEN [should_preserve |-> sp.preserve,
          new_pixel       |-> sp.color,
          palette_idx     |-> PreservedIdx(sp.color),
          error           |-> ZeroError]
    ELSE LET nr == find_nearest_palette_color(old_pixel, PALETTE_ARRAY)
         IN  [should_preserve |-> sp.preserve,
              new_pixel       |-> nr.color,
              palette_idx     |-> nr.idx,
              error           |-> PixelSub(old_pixel, PixelFromInt(nr.color))]

\* variant: the preservation policy is asked about the working value (its
\* integer part) instead of the original value
PixelDecisionOnWorking(self, old_pixel, orig) ==
    Decide(should_preserve_pixel(self, <<old_pixel[1][1], old_pixel[2][1], old_pixel[3][1]>>),
           old_pixel)

\* variant: a pixel that is not preserved is quantized from its original
\* value
PixelDecisionQuantizesOriginal(self, old_pixel, orig) ==
    Decide(should_preserve_pixel(self, orig), PixelFromInt(orig))

\* what one iteration of the loop decides for the pixel with working value
\* old_pixel and original value orig
PixelDecision(self, old_pixel, orig) ==
    Decide(should_preserve_pixel(self, orig), old_pixel)

\* variant: np.any in place of np.all in the mask
ColorCountsAny(raster, w, h) ==
    LET total_pixels == h * w
        Mask(color_rgb) ==
            {c \in (0 .. h - 1) \X (0 .. w - 1) :
                \/ Abs(raster[c[1]][c[2]][1] - color_rgb[1]) < 2
                \/ Abs(raster[c[1]][c[2]][2] - color_rgb[2]) < 2
                \/ Abs(raster[c[1]][c[2]][3] - color_rgb[3]) < 2}
    IN  [color_name \in DOMAIN E6_PALETTE |->
            LET count == Cardinality(Mask(E6_PALETTE[color_name]))
            IN  [count |-> count,
                 percentage |-> F64TimesInt(F64Div(count, total_pixels), 100)]]

\* variant: a per-channel tolerance of 256 in place of 2
ColorCountsLoose(raster, w, h) ==
    LET total_pixels == h * w
        Mask(color_rgb) ==
            {c \in (0 .. h - 1) \X (0 .. w - 1) :
                /\ Abs(raster[c[1]][c[2]][1] - color_rgb[1]) < 256
                /\ Abs(raster[c[1]][c[2]][2] - color_rgb[2]) < 256
                /\ Abs(raster[c[1]][c[2]][3] - color_rgb[3]) < 256}
    IN  [color_name \in DOMAIN E6_PALETTE |->
            LET count == Cardinality(Mask(E6_PALETTE[color_name]))
            IN  [count |-> count,
                 percentage |-> F64TimesInt(F64Div(count, total_pixels), 100)]]

\* variant: only the colours that occur get an entry in the table
ColorCountsNonZero(raster, w, h) ==
    LET total_pixels == h * w
        Mask(color_rgb) ==
            {c \in (0 .. h - 1) \X (0 .. w - 1) :
                /\ Abs(raster[c[1]][c[2]][1] - color_rgb[1]) < 2
                /\ Abs(raster[c[1]][c[2]][2] - color_rgb[2]) < 2
                /\ Abs(raster[c[1]][c[2]][3] - color_rgb[3]) < 2}
    IN  [color_name \in {n \in DOMAIN E6_PALETTE : Mask(E6_PALETTE[n]) # {}} |->
            LET count == Cardinality(Mask(E6_PALETTE[color_name]))
            IN  [count |-> count,
                 percentage |-> F64TimesInt(F64Div(count, total_pixels), 100)]]

\* the counting loop of analyze_color_distribution over a uint8 raster
ColorCounts(raster, w, h) ==
    LET total_pixels == h * w
        Mask(color_rgb) ==
            {c \in (0 .. h - 1) \X (0 .. w - 1) :
                /\ Abs(raster[c[1]][c[2]][1] - color_rgb[1]) < 2
                /\ Abs(raster[c[1]][c[2]][2] - color_rgb[2]) < 2
                /\ Abs(raster[c[1]][c[2]][3] - color_rgb[3]) < 2}
    IN  [color_name \in DOMAIN E6_PALETTE |->
            LET count == Cardinality(Mask(E6_PALETTE[color_name]))
            IN  [count |-> count,
                 percentage |-> F64TimesInt(F64Div(count, total_pixels), 100)]]

-----------------------------------------------------------------------------
(* Inputs.                                                                 *)

\* the instances the pipeline is run with
Configs ==
    {SpectraE6Dithering(TRUE, 10), SpectraE6Dithering(FALSE, 10),
     SpectraE6Dithering(TRUE, 200),
     OptimizedE6Dithering(TRUE, 40), OptimizedE6Dithering(TRUE, 128)}

\* 8-bit RGB input pixels
PixelValues ==
    {<<0, 0, 0>>, <<255, 255, 255>>, <<128, 128, 128>>,
     <<250, 5, 5>>, <<100, 150, 200>>}

Shapes == (1 .. MaxWidth) \X (1 .. MaxHeight)

\* rasters of a uniform background with up to two features
Rasters(w, h) ==
    LET Cells == (0 .. h - 1) \X (0 .. w - 1)
    IN  {[yy \in 0 .. h - 1 |-> [xx \in 0 .. w - 1 |->
            IF <<yy, xx>> = c1 THEN v1
            ELSE IF <<yy, xx>> = c2 THEN v2 ELSE bg]] :
         bg \in PixelValues, c1 \in Cells, v1 \in PixelValues,
         c2 \in Cells, v2 \in PixelValues}

-----------------------------------------------------------------------------
(* floyd_steinberg_dither as a state machine: one step per loop iteration. *)

\* the state on entry to the loop, for instance self and input raster image
DitherEntry(self, image, w, h) ==
    /\ cfg = self
    /\ width = w
    /\ height = h
    /\ original_array = image
    /\ img_array = [yy \in 0 .. h - 1 |-> [xx \in 0 .. w - 1 |->
                        PixelFromInt(image[yy][xx])]]
    /\ dithered = [yy \in 0 .. h - 1 |-> [xx \in 0 .. w - 1 |-> <<0, 0, 0>>]]
    /\ palette_indices = [yy \in 0 .. h - 1 |-> [xx \in 0 .. w - 1 |-> 0]]
    /\ x = 0
    /\ y = 0
    /\ pc = "loop"

Init ==
    /\ \E self \in Configs, s \in Shapes :
          \E image \in Rasters(s[1], s[2]) : DitherEntry(self, image, s[1], s[2])
    /\ color_counts = None
    /\ q_pixel = None
    /\ q_result = None
    /\ visited = <<>>
    /\ prev_return = None
    /\ saved = None

\* variant: the outer loop is range(height - 1)
LoopAdvanceShort(px, py, w, h) ==
    IF px < w - 1
    THEN [x |-> px + 1, y |-> py, pc |-> "loop"]
    ELSE IF py < h - 2
         THEN [x |-> 0, y |-> py + 1, pc |-> "loop"]
         ELSE [x |-> px, y |-> py, pc |-> "done"]

\* variant: the two loops are nested the other way round
LoopAdvanceColumnMajor(px, py, w, h) ==
    IF py < h - 1
    THEN [x |-> px, y |-> py + 1, pc |-> "loop"]
    ELSE IF px < w - 1
         THEN [x |-> px + 1, y |-> 0, pc |-> "loop"]
         ELSE [x |-> px, y |-> py, pc |-> "done"]

\* for y in range(height): for x in range(width): the position that follows
\* (px, py), or the end of the loop
LoopAdvance(px, py, w, h) ==
    IF px < w - 1
    THEN [x |-> px + 1, y |-> py, pc |-> "loop"]
    ELSE IF py < h - 1
         THEN [x |-> 0, y |-> py + 1, pc |-> "loop"]
         ELSE [x |-> px, y |-> py, pc |-> "done"]

\* variant: original_array is the working buffer itself, not a copy of it,
\* so the policy reads (the integer part of) what diffusion has written
DitherPixelAliased ==
    /\ pc = "loop"
    /\ LET d == PixelDecision(cfg, img_array[y][x], original_array[y][x])
       IN  /\ dithered' = [dithered EXCEPT ![y][x] = PixelToUint8(d.new_pixel)]
           /\ palette_indices' = [palette_indices EXCEPT ![y][x] = ToUint8(d.palette_idx)]
           /\ img_array' = IF ~d.should_preserve
                           THEN DistributeError(img_array, x, y, width, height, d.error)
                           ELSE img_array
    /\ original_array' = [yy \in 0 .. height - 1 |-> [xx \in 0 .. width - 1 |->
                             <<img_array'[yy][xx][1][1], img_array'[yy][xx][2][1],
                               img_array'[yy][xx][3][1]>>]]
    /\ visited' = Append(visited, <<y, x>>)
    /\ LET nxt == LoopAdvance(x, y, width, height)
       IN  x' = nxt.x /\ y' = nxt.y /\ pc' = nxt.pc
    /\ UNCHANGED <<cfg, width, height, color_counts, q_pixel, q_result,
                   prev_return, saved>>

\* one iteration of the loop body for pixel (x, y)
DitherPixel ==
    /\ pc = "loop"
    /\ LET d == PixelDecision(cfg, img_array[y][x], original_array[y][x])
       IN  /\ dithered' = [dithered EXCEPT ![y][x] = PixelToUint8(d.new_pixel)]
           /\ palette_indices' = [palette_indices EXCEPT ![y][x] = ToUint8(d.palette_idx)]
           /\ img_array' = IF ~d.should_preserve
                           THEN DistributeError(img_array, x, y, width, height, d.error)
                           ELSE img_array
    /\ visited' = Append(visited, <<y, x>>)
    /\ LET nxt == LoopAdvance(x, y, width, height)
       IN  x' = nxt.x /\ y' = nxt.y /\ pc' = nxt.pc
    /\ UNCHANGED <<cfg, width, height, original_array, color_counts, q_pixel,
                   q_result, prev_return, saved>>

\* analyze_color_distribution, once its dithering pass has returned
AnalyzeColorDistribution ==
    /\ pc = "done"
    /\ color_counts = None
    /\ color_counts' = ColorCounts(dithered, width, height)
    /\ pc' = "analyzed"
    /\ UNCHANGED <<cfg, width, height, original_array, img_array, dithered,
                   palette_indices, x, y, q_pixel, q_result, visited, prev_return,
                   saved>>

Next == DitherPixel \/ AnalyzeColorDistribution

Spec == Init /\ [][Next]_vars

-----------------------------------------------------------------------------
(* floyd_steinberg_dither from its call on: the arrays are made by the     *)
(* call, and the loop is sequential code, so an iteration that can run     *)
(* does run.                                                               *)

\* variant: the working buffer is filled from the rows read right to left
EnterDitherMirrored(image, w, h) ==
    /\ width' = w
    /\ height' = h
    /\ original_array' = image
    /\ img_array' = [yy \in 0 .. h - 1 |-> [xx \in 0 .. w - 1 |->
                         PixelFromInt(image[yy][w - 1 - xx])]]
    /\ dithered' = [yy \in 0 .. h - 1 |-> [xx \in 0 .. w - 1 |-> <<0, 0, 0>>]]
    /\ palette_indices' = [yy \in 0 .. h - 1 |-> [xx \in 0 .. w - 1 |-> 0]]
    /\ x' = 0
    /\ y' = 0
    /\ visited' = <<>>
    /\ pc' = "loop"

\* the arrays and loop position a call on raster image sets up
EnterDither(image, w, h) ==
    /\ width' = w
    /\ height' = h
    /\ original_array' = image
    /\ img_array' = [yy \in 0 .. h - 1 |-> [xx \in 0 .. w - 1 |->
                         PixelFromInt(image[yy][xx])]]
    /\ dithered' = [yy \in 0 .. h - 1 |-> [xx \in 0 .. w - 1 |-> <<0, 0, 0>>]]
    /\ palette_indices' = [yy \in 0 .. h - 1 |-> [xx \in 0 .. w - 1 |-> 0]]
    /\ x' = 0
    /\ y' = 0
    /\ visited' = <<>>
    /\ pc' = "loop"

InitLive ==
    /\ cfg \in Configs
    /\ width = 0
    /\ height = 0
    /\ original_array = None
    /\ img_array = None
    /\ dithered = None
    /\ palette_indices = None
    /\ x = 0
    /\ y = 0
    /\ pc = "call"
    /\ color_counts = None
    /\ q_pixel = None
    /\ q_result = None
    /\ visited = <<>>
    /\ prev_return = None
    /\ saved = None

CallDither ==
    /\ pc = "call"
    /\ \E s \in Shapes :
          \E image \in Rasters(s[1], s[2]) : EnterDither(image, s[1], s[2])
    /\ UNCHANGED <<cfg, color_counts, q_pixel, q_result, prev_return, saved>>

NextLive == CallDither \/ DitherPixel

\* the loop makes the iteration it stands at: the steps of DitherPixel, told
\* by the coordinate they add to visited
LoopIteration == pc = "loop" /\ visited' = Append(visited, <<y, x>>)

SpecLive == InitLive /\ [][NextLive]_vars /\ WF_visited(LoopIteration)

-----------------------------------------------------------------------------
(* process_dashboard: analyze_color_distribution (which dithers the input  *)
(* and counts), then a second dithering call on the same input, then the   *)
(* three files.                                                            *)

\* rasters of a uniform background with at most one feature
SmallRasters(w, h) ==
    {[yy \in 0 .. h - 1 |-> [xx \in 0 .. w - 1 |->
            IF <<yy, xx>> = c1 THEN v1 ELSE bg]] :
         bg \in PixelValues, c1 \in (0 .. h - 1) \X (0 .. w - 1), v1 \in PixelValues}

\* what the dithering call that has just ended was given and returned
CallRecord ==
    [input |-> original_array, image |-> dithered, indices |-> palette_indices]

\* process_dashboard is called; its first statement of effect is the
\* dithering call inside analyze_color_distribution
DashboardAnalyzeEntry ==
    /\ pc = "call"
    /\ \E s \in Shapes :
          \E image \in SmallRasters(s[1], s[2]) : EnterDither(image, s[1], s[2])
    /\ UNCHANGED <<cfg, color_counts, q_pixel, q_result, prev_return, saved>>

\* variant: the second call goes on with the working buffer the first left
DashboardDitherStale ==
    /\ pc = "analyzed"
    /\ prev_return = None
    /\ prev_return' = CallRecord
    /\ dithered' = [yy \in 0 .. height - 1 |-> [xx \in 0 .. width - 1 |-> <<0, 0, 0>>]]
    /\ palette_indices' = [yy \in 0 .. height - 1 |-> [xx \in 0 .. width - 1 |-> 0]]
    /\ x' = 0
    /\ y' = 0
    /\ visited' = <<>>
    /\ pc' = "loop"
    /\ UNCHANGED <<cfg, width, height, original_array, img_array, color_counts,
                   q_pixel, q_result, saved>>

\* the dithering call of process_dashboard itself, on the same input image
DashboardDither ==
    /\ pc = "analyzed"
    /\ prev_return = None
    /\ prev_return' = CallRecord
    /\ EnterDither(original_array, width, height)
    /\ UNCHANGED <<cfg, color_counts, q_pixel, q_result, saved>>

\* variant: the index map is scaled by 52
PaletteGrayWide(idx) == ToUint8(idx * 52)

\* (palette_indices * 42).astype(np.uint8), for one cell
PaletteGray(idx) == ToUint8(idx * 42)

\* the files: the dithered image, the preview carrying the statistics, and
\* the index map scaled by 42 in uint8
DashboardSave ==
    /\ pc = "done"
    /\ color_counts # None
    /\ saved' = [dithered |-> dithered,
                 stats    |-> color_counts,
                 palette  |-> [yy \in 0 .. height - 1 |-> [xx \in 0 .. width - 1 |->
                                  PaletteGray(palette_indices[yy][xx])]]]
    /\ pc' = "saved"
    /\ UNCHANGED <<cfg, width, height, original_array, img_array, dithered,
                   palette_indices, x, y, color_counts, q_pixel, q_result, visited,
                   prev_return>>

NextDashboard ==
    \/ DashboardAnalyzeEntry
    \/ DitherPixel
    \/ AnalyzeColorDistribution
    \/ DashboardDither
    \/ DashboardSave

SpecDashboard == InitLive /\ [][NextDashboard]_vars

-----------------------------------------------------------------------------
(* Two dithering calls on one instance whose inputs differ in one pixel.   *)

PerturbConfigs ==
    {SpectraE6Dithering(TRUE, 10), SpectraE6Dithering(FALSE, 10),
     OptimizedE6Dithering(TRUE, 40)}

PerturbValues == {<<255, 255, 255>>, <<100, 150, 200>>}

InitPerturbed == InitLive /\ cfg \in PerturbConfigs

FirstDither ==
    /\ pc = "call"
    /\ \E s \in Shapes :
          \E image \in SmallRasters(s[1], s[2]) : EnterDither(image, s[1], s[2])
    /\ UNCHANGED <<cfg, color_counts, q_pixel, q_result, prev_return, saved>>

\* the next call, on the input of the first with one pixel replaced
PerturbedDither ==
    /\ pc = "done"
    /\ prev_return = None
    /\ prev_return' = CallRecord
    /\ \E yy \in 0 .. height - 1, xx \in 0 .. width - 1, v \in PerturbValues :
          EnterDither([original_array EXCEPT ![yy][xx] = v], width, height)
    /\ UNCHANGED <<cfg, color_counts, q_pixel, q_result, saved>>

NextPerturbed == FirstDither \/ DitherPixel \/ PerturbedDither

SpecPerturbed == InitPerturbed /\ [][NextPerturbed]_vars

-----------------------------------------------------------------------------
(* find_nearest_palette_color called on its own, on pixels that need not   *)
(* be 8-bit: channels below 0, above 255 and between two integers.         *)

QueryChannels ==
    {FromInt(-64), <<-1, FracUnit \div 2>>, FromInt(0), FromInt(127),
     <<127, FracUnit \div 2>>, FromInt(128), FromInt(255), FromInt(320)}

InitNearest ==
    /\ cfg = SpectraE6Dithering(TRUE, 10)
    /\ width = 0
    /\ height = 0
    /\ original_array = None
    /\ img_array = None
    /\ dithered = None
    /\ palette_indices = None
    /\ x = 0
    /\ y = 0
    /\ pc = "idle"
    /\ color_counts = None
    /\ q_pixel \in QueryChannels \X QueryChannels \X QueryChannels
    /\ q_result = None
    /\ visited = <<>>
    /\ prev_return = None
    /\ saved = None

CallFindNearest ==
    /\ pc = "idle"
    /\ q_result = None
    /\ q_result' = find_nearest_palette_color(q_pixel, PALETTE_ARRAY)
    /\ UNCHANGED <<cfg, width, height, original_array, img_array, dithered,
                   palette_indices, x, y, pc, color_counts, q_pixel, visited,
                   prev_return, saved>>

NextNearest == CallFindNearest

SpecNearest == InitNearest /\ [][NextNearest]_vars

-----------------------------------------------------------------------------
(* should_preserve_pixel called on its own, on 8-bit pixels whose channels *)
(* sit on, next to and away from the thresholds and tolerances in use.     *)

PreserveChannels ==
    {0, 5, 6, 10, 11, 30, 31, 40, 127, 128, 215, 224, 225, 245, 249, 250, 255}

PreserveConfigs == Configs \cup {OptimizedE6Dithering(FALSE, 40)}

InitPreserve ==
    /\ cfg \in PreserveConfigs
    /\ width = 0
    /\ height = 0
    /\ original_array = None
    /\ img_array = None
    /\ dithered = None
    /\ palette_indices = None
    /\ x = 0
    /\ y = 0
    /\ pc = "idle"
    /\ color_counts = None
    /\ q_pixel \in PreserveChannels \X PreserveChannels \X PreserveChannels
    /\ q_result = None
    /\ visited = <<>>
    /\ prev_return = None
    /\ saved = None

CallShouldPreserve ==
    /\ pc = "idle"
    /\ q_result = None
    /\ q_result' = should_preserve_pixel(cfg, q_pixel)
    /\ UNCHANGED <<cfg, width, height, original_array, img_array, dithered,
                   palette_indices, x, y, pc, color_counts, q_pixel, visited,
                   prev_return, saved>>

NextPreserve == CallShouldPreserve

SpecPreserve == InitPreserve /\ [][NextPreserve]_vars

-----------------------------------------------------------------------------
(* Vocabulary of the properties.                                           *)

Cells == (0 .. height - 1) \X (0 .. width - 1)

\* pixel (xx, yy) has had its loop iteration
Processed(yy, xx) == pc # "loop" \/ yy < y \/ (yy = y /\ xx < x)

\* the preservation policy preserves pixel (xx, yy)
Preserved(yy, xx) == should_preserve_pixel(cfg, original_array[yy][xx]).preserve

\* the working cell of (xx, yy) still holds the original value
Untouched(yy, xx) == img_array[yy][xx] = PixelFromInt(original_array[yy][xx])

SixTriples ==
    {<<0, 0, 0>>, <<255, 255, 255>>, <<255, 0, 0>>, <<255, 255, 0>>,
     <<0, 255, 0>>, <<0, 0, 255>>}

DeclarationOrder ==
    <<<<0, 0, 0>>, <<255, 255, 255>>, <<255, 0, 0>>, <<255, 255, 0>>,
      <<0, 255, 0>>, <<0, 0, 255>>>>

-----------------------------------------------------------------------------
(* C1: palette closure.  Every pixel the pass has written, and so every   *)
(* pixel of the raster it returns, is one of the six palette triples, for  *)
(* every input raster and every instance.                                  *)
C1_PaletteClosure ==
    \A c \in Cells : Processed(c[1], c[2]) => dithered[c[1]][c[2]] \in SixTriples

\* a returned 3x2 raster holding a colour other than black and white in a
\* pixel that had received diffused error
C1_Witness ==
    /\ pc = "done" /\ width = 3 /\ height = 2
    /\ \E c \in Cells :
          /\ dithered[c[1]][c[2]] \notin {<<0, 0, 0>>, <<255, 255, 255>>}
          /\ ~Untouched(c[1], c[2])

(* C2: index consistency.  For every written coordinate the palette colour *)
(* at position palette_indices[y][x] of the declaration order is the       *)
(* output pixel, for preserved and for non-preserved pixels.               *)
C2_IndexConsistency ==
    \A c \in Cells :
        Processed(c[1], c[2]) =>
            /\ palette_indices[c[1]][c[2]] \in 0 .. 5
            /\ DeclarationOrder[palette_indices[c[1]][c[2]] + 1] = dithered[c[1]][c[2]]

\* a returned raster with a preserved pixel of index other than 0 and a
\* non-preserved pixel of index other than 0
C2_Witness ==
    /\ pc = "done"
    /\ \E c \in Cells : Preserved(c[1], c[2]) /\ palette_indices[c[1]][c[2]] > 1
    /\ \E c \in Cells : ~Preserved(c[1], c[2]) /\ palette_indices[c[1]][c[2]] > 1

-----------------------------------------------------------------------------
(* Vocabulary of the properties about one loop iteration.                  *)

\* k * a for 0 <= k <= 7
FTimesInt(a, k) == Norm(a[1] * k, a[2] * k)

PixelTimesInt(p, k) == <<FTimesInt(p[1], k), FTimesInt(p[2], k), FTimesInt(p[3], k)>>

\* 16 * p
Sixteen(p) == PixelTimesInt(PixelTimesInt(p, 4), 4)

\* what the iteration adds to the working cell of (xx, yy)
Added(yy, xx) == PixelSub(img_array'[yy][xx], img_array[yy][xx])

\* the quantization error of the iteration: working value minus output colour
StepError == PixelSub(img_array[y][x], PixelFromInt(dithered'[y][x]))

\* the diffusion targets as offsets (dy, dx) with their weight in sixteenths
Kernel == {<<0, 1, 7>>, <<1, -1, 3>>, <<1, 0, 5>>, <<1, 1, 1>>}

InGrid(yy, xx) == yy \in 0 .. height - 1 /\ xx \in 0 .. width - 1

\* (xx, yy) is a diffusion target of the current pixel
IsTarget(yy, xx) == \E t \in Kernel : yy = y + t[1] /\ xx = x + t[2]

NothingAdded == \A c \in Cells : img_array'[c[1]][c[2]] = img_array[c[1]][c[2]]

AllLE(p, t) == p[1] <= t /\ p[2] <= t /\ p[3] <= t

AllGE(p, t) == p[1] >= t /\ p[2] >= t /\ p[3] >= t

(* C4 as stated: with preservation enabled a pixel with all original       *)
(* channels <= the black threshold is output black with index 0, one with  *)
(* all original channels >= the white threshold is output white with index *)
(* 1, and in both cases nothing is added to any neighbour.                 *)
C4_AsStated ==
    [][(pc = "loop" /\ cfg.preserve_bw) =>
          LET o == original_array[y][x]
          IN  /\ AllLE(o, cfg.BLACK_THRESHOLD) =>
                    /\ dithered'[y][x] = <<0, 0, 0>>
                    /\ palette_indices'[y][x] = 0
                    /\ NothingAdded
              /\ AllGE(o, cfg.WHITE_THRESHOLD) =>
                    /\ dithered'[y][x] = <<255, 255, 255>>
                    /\ palette_indices'[y][x] = 1
                    /\ NothingAdded]_vars

(* C4 amended: as stated, the white case for pixels that do not also pass  *)
(* the black test (the black test is made first).                          *)
C4_ThresholdSnapping ==
    [][(pc = "loop" /\ cfg.preserve_bw) =>
          LET o == original_array[y][x]
          IN  /\ AllLE(o, cfg.BLACK_THRESHOLD) =>
                    /\ dithered'[y][x] = <<0, 0, 0>>
                    /\ palette_indices'[y][x] = 0
                    /\ NothingAdded
              /\ (AllGE(o, cfg.WHITE_THRESHOLD) /\ ~AllLE(o, cfg.BLACK_THRESHOLD)) =>
                    /\ dithered'[y][x] = <<255, 255, 255>>
                    /\ palette_indices'[y][x] = 1
                    /\ NothingAdded]_vars

\* a black-threshold pixel and a white-threshold pixel have been processed,
\* each after error had been diffused into its working cell
C4_Witness ==
    /\ cfg.preserve_bw
    /\ \E c \in Cells :
          /\ Processed(c[1], c[2]) /\ ~Untouched(c[1], c[2])
          /\ AllLE(original_array[c[1]][c[2]], cfg.BLACK_THRESHOLD)
          /\ dithered[c[1]][c[2]] = <<0, 0, 0>>
    /\ \E c \in Cells :
          /\ Processed(c[1], c[2]) /\ ~Untouched(c[1], c[2])
          /\ AllGE(original_array[c[1]][c[2]], cfg.WHITE_THRESHOLD)
          /\ dithered[c[1]][c[2]] = <<255, 255, 255>>

(* C5: the iteration of a pixel the policy preserves leaves every cell of  *)
(* the working buffer unchanged.                                           *)
C5_PreservedEmitNothing ==
    [][(pc = "loop" /\ Preserved(y, x)) => img_array' = img_array]_vars

\* a preserved pixel that has all four diffusion targets and holds received
\* error has been processed
C5_Witness ==
    /\ width = 3 /\ height = 2
    /\ Processed(0, 1) /\ Preserved(0, 1) /\ ~Untouched(0, 1)

(* C6 as stated: no error is ever added to the working cell of a pixel the *)
(* policy preserves, so that cell always holds the original value.         *)
C6_AsStated ==
    \A c \in Cells : Preserved(c[1], c[2]) => Untouched(c[1], c[2])

(* C6 amended: the working cell of a preserved pixel may hold error        *)
(* diffused by earlier pixels, but it is not read: the output colour and   *)
(* index of a preserved pixel are those the policy gives for its original  *)
(* value.                                                                  *)
C6_ReceivedErrorIgnored ==
    \A c \in Cells :
        (Processed(c[1], c[2]) /\ Preserved(c[1], c[2])) =>
            LET col == should_preserve_pixel(cfg, original_array[c[1]][c[2]]).color
            IN  /\ dithered[c[1]][c[2]] = col
                /\ DeclarationOrder[palette_indices[c[1]][c[2]] + 1] = col

\* a preserved pixel processed while its working value, with the error it
\* received, was nearest to another colour than the one it is output as
C6_Witness ==
    \E c \in Cells :
        /\ Processed(c[1], c[2]) /\ Preserved(c[1], c[2]) /\ ~Untouched(c[1], c[2])
        /\ find_nearest_palette_color(img_array[c[1]][c[2]], PALETTE_ARRAY).color
              # dithered[c[1]][c[2]]

C8_BoundaryTruncation ==
    [][(pc = "loop" /\ ~Preserved(y, x)
            /\ (x = 0 \/ x = width - 1 \/ y = height - 1)) =>
          /\ \A t \in Kernel :
                InGrid(y + t[1], x + t[2]) =>
                    Sixteen(Added(y + t[1], x + t[2])) = PixelTimesInt(StepError, t[3])
          /\ \A c \in Cells :
                ~IsTarget(c[1], c[2]) => img_array'[c[1]][c[2]] = img_array[c[1]][c[2]]]_vars

\* in a 3x2 raster a first-column, a last-column and a last-row pixel have
\* been processed unpreserved with non-zero error
C8_Witness ==
    /\ width = 3 /\ height = 2 /\ pc = "done"
    /\ \A c \in {<<0, 0>>, <<0, 2>>, <<1, 1>>} :
          /\ ~Preserved(c[1], c[2])
          /\ img_array[c[1]][c[2]] # PixelFromInt(dithered[c[1]][c[2]])

-----------------------------------------------------------------------------
(* The two end-to-end scenarios.                                           *)

DefaultInstance == SpectraE6Dithering(TRUE, 10)

MidGray1x1 ==
    /\ cfg = DefaultInstance /\ width = 1 /\ height = 1
    /\ original_array[0][0] = <<128, 128, 128>>
    /\ pc # "loop"

(* C9 as stated: the 1x1 raster [(128,128,128)] under the default instance *)
(* is not preserved, is equidistant from black and white, and is output    *)
(* black with index 0.                                                     *)
C9_AsStated ==
    MidGray1x1 =>
        /\ ~Preserved(0, 0)
        /\ IntSumSq(<<0, 0, 0>>, <<128, 128, 128>>)
              = IntSumSq(<<255, 255, 255>>, <<128, 128, 128>>)
        /\ dithered[0][0] = <<0, 0, 0>>
        /\ palette_indices[0][0] = 0

(* C9 amended: the raster is not preserved; (128,128,128) is nearer to     *)
(* white (squared distance 3 * 127^2 = 48387) than to black (3 * 128^2 =   *)
(* 49152) and to every other entry, and is output white with index 1.      *)
C9_MidGrayIsWhite ==
    MidGray1x1 =>
        /\ ~Preserved(0, 0)
        /\ IntSumSq(<<255, 255, 255>>, <<128, 128, 128>>) = 48387
        /\ IntSumSq(<<0, 0, 0>>, <<128, 128, 128>>) = 49152
        /\ \A j \in 1 .. 6 :
              j # 2 => IntSumSq(DeclarationOrder[j], <<128, 128, 128>>) > 48387
        /\ dithered[0][0] = <<255, 255, 255>>
        /\ palette_indices[0][0] = 1

C9_Witness == MidGray1x1 /\ pc = "done"

\* v * 2^52 as five 14-bit limbs, for a float64 v = 0 or 1 <= v < 2^13
F64Fixed52(v) ==
    IF v.sig[1] = 0 THEN <<0, 0, 0, 0, 0>> ELSE MulLimbs(v.sig, 2 ^ (v.exp + 52))

\* n * 2^52 as five limbs, for an integer 0 < n <= 2^13
Fixed52OfInt(n) == MulLimbs(<<1024, 0, 0, 0>>, n)

LimbsAdd(p, q) ==
    LET t5 == p[5] + q[5]
        t4 == p[4] + q[4] + (t5 \div HalfUnit)
        t3 == p[3] + q[3] + (t4 \div HalfUnit)
        t2 == p[2] + q[2] + (t3 \div HalfUnit)
        t1 == p[1] + q[1] + (t2 \div HalfUnit)
    IN  <<t1, t2 % HalfUnit, t3 % HalfUnit, t4 % HalfUnit, t5 % HalfUnit>>

RECURSIVE LimbsLEFrom(_, _, _)
LimbsLEFrom(p, q, i) ==
    IF i > 5 THEN TRUE
    ELSE IF p[i] # q[i] THEN p[i] < q[i]
    ELSE LimbsLEFrom(p, q, i + 1)

LimbsLE(p, q) == LimbsLEFrom(p, q, 1)

BlackWhite2x1 ==
    /\ cfg.preserve_bw /\ cfg.BLACK_THRESHOLD = 30 /\ cfg.WHITE_THRESHOLD = 225
    /\ width = 2 /\ height = 1
    /\ original_array[0][0] = <<0, 0, 0>>
    /\ original_array[0][1] = <<255, 255, 255>>

(* C10: the 2x1 raster [(0,0,0), (255,255,255)] with preservation enabled  *)
(* and the default thresholds dithers to itself with index map [0, 1], and *)
(* analyze_color_distribution reports black 1 (50%), white 1 (50%) and     *)
(* 0 (0%) for red, yellow, green and blue.                                 *)
C10_BlackWhiteScenario ==
    BlackWhite2x1 =>
        /\ pc \in {"done", "analyzed"} =>
              /\ dithered = original_array
              /\ palette_indices[0][0] = 0 /\ palette_indices[0][1] = 1
        /\ pc = "analyzed" =>
              /\ DOMAIN color_counts = {"black", "white", "red", "yellow", "green", "blue"}
              /\ \A n \in {"black", "white"} :
                    /\ color_counts[n].count = 1
                    /\ F64Fixed52(color_counts[n].percentage) = Fixed52OfInt(50)
              /\ \A n \in {"red", "yellow", "green", "blue"} :
                    /\ color_counts[n].count = 0
                    /\ color_counts[n].percentage = F64Zero

C10_Witness == BlackWhite2x1 /\ pc = "analyzed" /\ cfg = DefaultInstance

-----------------------------------------------------------------------------
(* Properties of the table of analyze_color_distribution.                  *)

ColorNames == {"black", "white", "red", "yellow", "green", "blue"}

\* the colours whose mask holds the output pixel (xx, yy)
CountedUnder(yy, xx) ==
    {n \in ColorNames :
        \A ch \in 1 .. 3 : Abs(dithered[yy][xx][ch] - E6_PALETTE[n][ch]) < 2}

CountSum ==
    color_counts["black"].count + color_counts["white"].count
        + color_counts["red"].count + color_counts["yellow"].count
        + color_counts["green"].count + color_counts["blue"].count

\* the exact sum of the six float64 percentages, times 2^52
PercentageSum52 ==
    LimbsAdd(LimbsAdd(LimbsAdd(F64Fixed52(color_counts["black"].percentage),
                               F64Fixed52(color_counts["white"].percentage)),
                      LimbsAdd(F64Fixed52(color_counts["red"].percentage),
                               F64Fixed52(color_counts["yellow"].percentage))),
             LimbsAdd(F64Fixed52(color_counts["green"].percentage),
                      F64Fixed52(color_counts["blue"].percentage)))

\* 2^-45, times 2^52
SumTolerance52 == <<0, 0, 0, 0, 128>>

(* C11: the table returned by analyze_color_distribution has the six       *)
(* colour names; every output pixel is counted under exactly one colour,   *)
(* the six counts sum to exactly width x height, and the six float64       *)
(* percentages sum to 100 within floating-point tolerance (2^-45).         *)
C11_CountsPartition ==
    pc = "analyzed" =>
        /\ DOMAIN color_counts = ColorNames
        /\ \A c \in Cells : Cardinality(CountedUnder(c[1], c[2])) = 1
        /\ CountSum = width * height
        /\ LimbsLE(Fixed52OfInt(100), LimbsAdd(PercentageSum52, SumTolerance52))
        /\ LimbsLE(PercentageSum52, LimbsAdd(Fixed52OfInt(100), SumTolerance52))

\* a table over six pixels with three colours counted, none of whose
\* percentages is an integer and whose exact sum is not 100
C11_Witness ==
    /\ pc = "analyzed" /\ width * height = 6
    /\ Cardinality({n \in ColorNames : color_counts[n].count > 0}) >= 3
    /\ PercentageSum52 # Fixed52OfInt(100)

-----------------------------------------------------------------------------
(* Properties of the preservation policy.                                  *)

\* the palette positions whose colour is within the tolerance of pixel p
NearEntries(p) ==
    {j \in 1 .. 6 :
        cfg.bw_tolerance >= 0
            /\ IntSumSq(DeclarationOrder[j], p) <= cfg.bw_tolerance * cfg.bw_tolerance}

\* the least element of a non-empty set of integers
Least(S) == CHOOSE j \in S : \A k \in S : j <= k

(* C12: with preservation enabled should_preserve_pixel decides by the     *)
(* first check that matches, in the order black threshold (all channels    *)
(* <= it, equality included), white threshold (all channels >= it,         *)
(* equality included), exact palette match (first entry in declaration     *)
(* order within the tolerance), none; a pixel passing both threshold tests *)
(* is preserved as black.                                                  *)
C12_DecisionOrder ==
    (q_result # None /\ cfg.preserve_bw) =>
        IF AllLE(q_pixel, cfg.BLACK_THRESHOLD)
        THEN q_result = [preserve |-> TRUE, color |-> <<0, 0, 0>>]
        ELSE IF AllGE(q_pixel, cfg.WHITE_THRESHOLD)
        THEN q_result = [preserve |-> TRUE, color |-> <<255, 255, 255>>]
        ELSE IF NearEntries(q_pixel) # {}
        THEN q_result = [preserve |-> TRUE,
                         color |-> DeclarationOrder[Least(NearEntries(q_pixel))]]
        ELSE q_result = [preserve |-> FALSE, color |-> None]

\* a call on a pixel with all channels equal to the black threshold that
\* also passes the white test, answered black
C12_Witness ==
    /\ q_result # None /\ cfg.preserve_bw
    /\ cfg.BLACK_THRESHOLD >= cfg.WHITE_THRESHOLD
    /\ q_pixel = <<cfg.BLACK_THRESHOLD, cfg.BLACK_THRESHOLD, cfg.BLACK_THRESHOLD>>
    /\ AllGE(q_pixel, cfg.WHITE_THRESHOLD)
    /\ q_result.color = <<0, 0, 0>>

\* the original value of the current pixel fails both threshold tests
FailsBothThresholds ==
    /\ ~AllLE(original_array[y][x], cfg.BLACK_THRESHOLD)
    /\ ~AllGE(original_array[y][x], cfg.WHITE_THRESHOLD)

\* the iteration quantizes the current pixel from its working value and
\* diffuses the difference
QuantizedNormally ==
    LET nr == find_nearest_palette_color(img_array[y][x], PALETTE_ARRAY)
    IN  /\ dithered'[y][x] = nr.color
        /\ palette_indices'[y][x] = nr.idx
        /\ img_array' = DistributeError(img_array, x, y, width, height,
                                        PixelSub(img_array[y][x], PixelFromInt(nr.color)))

(* C13: with preservation enabled, a pixel whose original value fails both *)
(* threshold tests and lies within Euclidean distance <= bw_tolerance of a *)
(* palette entry is output as that entry (the first such in declaration    *)
(* order) with its index and adds nothing to any working cell; one farther *)
(* than the tolerance from every entry is not preserved: it is quantized   *)
(* from its working value and its error is diffused.                       *)
C13_ExactMatchPreserved ==
    [][(pc = "loop" /\ cfg.preserve_bw /\ FailsBothThresholds) =>
          LET near == NearEntries(original_array[y][x])
          IN  IF near # {}
              THEN /\ dithered'[y][x] = DeclarationOrder[Least(near)]
                   /\ palette_indices'[y][x] = Least(near) - 1
                   /\ NothingAdded
              ELSE QuantizedNormally]_vars

\* under one instance a pixel near red, holding received error, has been
\* output as red, and a pixel far from every entry has been quantized to a
\* colour that left an error
C13_Witness ==
    /\ cfg.preserve_bw /\ cfg.bw_tolerance < 128
    /\ \E c \in Cells :
          /\ Processed(c[1], c[2]) /\ ~Untouched(c[1], c[2])
          /\ original_array[c[1]][c[2]] = <<250, 5, 5>>
          /\ NearEntries(original_array[c[1]][c[2]]) = {3}
          /\ dithered[c[1]][c[2]] = <<255, 0, 0>>
          /\ palette_indices[c[1]][c[2]] = 2
    /\ \E c \in Cells :
          /\ Processed(c[1], c[2])
          /\ NearEntries(original_array[c[1]][c[2]]) = {}
          /\ ~Preserved(c[1], c[2])
          /\ img_array[c[1]][c[2]] # PixelFromInt(dithered[c[1]][c[2]])

\* the colour the policy gives for the original value of (xx, yy)
PolicyColor(yy, xx) == should_preserve_pixel(cfg, original_array[yy][xx]).color

(* C14: what an iteration does with pixel (x,y) is decided by the original *)
(* value at (x,y) alone.  If the policy preserves that value the pixel is  *)
(* output in the policy's colour and nothing is diffused, whatever the     *)
(* working cell holds; if it does not, the pixel is quantized from its     *)
(* working value and its error diffused, whatever the working cell holds.  *)
C14_DecisionOnOriginal ==
    [][pc = "loop" =>
          IF Preserved(y, x)
          THEN /\ dithered'[y][x] = PolicyColor(y, x)
               /\ NothingAdded
          ELSE QuantizedNormally]_vars

\* a processed pixel that passes the black test on its original value but
\* not on the working value it had, and a processed pixel that no check
\* preserves on its original value though its working value was within the
\* tolerance of a palette entry
C14_Witness ==
    /\ cfg.preserve_bw
    /\ \E c \in Cells :
          /\ Processed(c[1], c[2]) /\ Preserved(c[1], c[2])
          /\ AllLE(original_array[c[1]][c[2]], cfg.BLACK_THRESHOLD)
          /\ \E ch \in 1 .. 3 : img_array[c[1]][c[2]][ch][1] > cfg.BLACK_THRESHOLD
    /\ \E c \in Cells :
          /\ Processed(c[1], c[2]) /\ ~Preserved(c[1], c[2])
          /\ \E j \in 1 .. 6 :
                Distance2(DeclarationOrder[j], img_array[c[1]][c[2]])[1]
                    < cfg.bw_tolerance * cfg.bw_tolerance

-----------------------------------------------------------------------------
(* Properties of the scan.                                                 *)

VisitedSet == {visited[i] : i \in DOMAIN visited}

(* C15: the quantized raster and the index map have exactly the rows and   *)
(* columns of the input raster; every output pixel is an 8-bit triple and  *)
(* every index-map cell an integer in 0..5; when the pass returns, every   *)
(* cell of both has been written by an iteration.                          *)
C15_OutputShape ==
    /\ DOMAIN dithered = DOMAIN original_array
    /\ DOMAIN palette_indices = DOMAIN original_array
    /\ DOMAIN original_array = 0 .. height - 1
    /\ \A yy \in 0 .. height - 1 :
          /\ DOMAIN original_array[yy] = 0 .. width - 1
          /\ DOMAIN dithered[yy] = DOMAIN original_array[yy]
          /\ DOMAIN palette_indices[yy] = DOMAIN original_array[yy]
    /\ \A c \in Cells :
          /\ palette_indices[c[1]][c[2]] \in 0 .. 5
          /\ dithered[c[1]][c[2]] \in (0 .. 255) \X (0 .. 255) \X (0 .. 255)
    /\ pc # "loop" => VisitedSet = Cells

\* a returned 3x2 index map whose last cell holds an index other than the
\* initial 0
C15_Witness ==
    /\ pc = "done" /\ width = 3 /\ height = 2
    /\ palette_indices[1][2] > 0
    /\ \E c \in Cells : palette_indices[c[1]][c[2]] = 5

\* the coordinates visited so far are the first ones of the row-major order
RowMajorPrefix ==
    /\ Len(visited) <= width * height
    /\ \A i \in DOMAIN visited :
          visited[i] = <<(i - 1) \div width, (i - 1) % width>>
    /\ pc = "loop" => Len(visited) = y * width + x /\ Len(visited) < width * height
    /\ pc # "loop" => Len(visited) = width * height

(* C17: the pass visits the pixels in row-major order, each pixel once,    *)
(* and ends after exactly width x height iterations: at every moment the   *)
(* iterations made are the first ones of the row-major enumeration, the    *)
(* loop is left only when all width x height are made, and it is left.     *)
C17_RowMajorOnce == [](RowMajorPrefix) /\ (pc = "loop" ~> pc = "done")

\* a pass over a 3x2 raster has ended with six iterations made
C17_Witness ==
    /\ pc = "done" /\ width = 3 /\ height = 2
    /\ visited = <<<<0, 0>>, <<0, 1>>, <<0, 2>>, <<1, 0>>, <<1, 1>>, <<1, 2>>>>

(* C18: an iteration changes the working buffer only in cells of pixels    *)
(* that are not yet processed and come after the current one, and changes  *)
(* the output raster and the index map only in the current cell: once a    *)
(* pixel is processed its working cell, output pixel and index are final.  *)
C18_ProcessedCellsFinal ==
    [][\A c \in Cells :
          /\ (Processed(c[1], c[2]) \/ c = <<y, x>>) =>
                img_array'[c[1]][c[2]] = img_array[c[1]][c[2]]
          /\ (Processed(c[1], c[2]) \/ c # <<y, x>>) =>
                /\ dithered'[c[1]][c[2]] = dithered[c[1]][c[2]]
                /\ palette_indices'[c[1]][c[2]] = palette_indices[c[1]][c[2]]]_vars

\* in a 3x2 raster the pixel (1,1), which has processed pixels on its left
\* and above, has diffused a non-zero error
C18_Witness ==
    /\ width = 3 /\ height = 2 /\ pc = "loop" /\ x = 2 /\ y = 1
    /\ ~Preserved(1, 1)
    /\ img_array[1][1] # PixelFromInt(dithered[1][1])
    /\ ~Untouched(1, 2)

\* 16 times what the processed pixel at offset -t of (xx, yy) has diffused
\* into (xx, yy)
Contribution(yy, xx, t) ==
    LET sy == yy - t[1]
        sx == xx - t[2]
    IN  IF InGrid(sy, sx) /\ Processed(sy, sx) /\ ~Preserved(sy, sx)
        THEN PixelTimesInt(PixelSub(img_array[sy][sx], PixelFromInt(dithered[sy][sx])), t[3])
        ELSE ZeroError

(* C19: a processed pixel that is not preserved has the colour and index   *)
(* that find_nearest_palette_color gives for its working value, and the    *)
(* working value of every pixel is its original value plus, for each       *)
(* processed non-preserved pixel it is a diffusion target of, that pixel's *)
(* weight times (working value minus output colour), signed and unclamped. *)
C19_QuantizedFromWorking ==
    \A c \in Cells :
        /\ (Processed(c[1], c[2]) /\ ~Preserved(c[1], c[2])) =>
              LET nr == find_nearest_palette_color(img_array[c[1]][c[2]], PALETTE_ARRAY)
              IN  /\ dithered[c[1]][c[2]] = nr.color
                  /\ palette_indices[c[1]][c[2]] = nr.idx
        /\ Sixteen(PixelSub(img_array[c[1]][c[2]], PixelFromInt(original_array[c[1]][c[2]])))
              = PixelAdd(PixelAdd(Contribution(c[1], c[2], <<0, 1, 7>>),
                                  Contribution(c[1], c[2], <<1, -1, 3>>)),
                         PixelAdd(Contribution(c[1], c[2], <<1, 0, 5>>),
                                  Contribution(c[1], c[2], <<1, 1, 1>>)))

\* a processed non-preserved pixel whose output differs from the colour
\* nearest to its original value, and one whose working value had a channel
\* outside 0..255
C19_Witness ==
    /\ \E c \in Cells :
          /\ Processed(c[1], c[2]) /\ ~Preserved(c[1], c[2])
          /\ dithered[c[1]][c[2]]
                # find_nearest_palette_color(PixelFromInt(original_array[c[1]][c[2]]),
                                             PALETTE_ARRAY).color
    /\ \E c \in Cells :
          /\ Processed(c[1], c[2]) /\ ~Preserved(c[1], c[2])
          /\ \E ch \in 1 .. 3 :
                img_array[c[1]][c[2]][ch][1] < 0 \/ img_array[c[1]][c[2]][ch][1] > 255

-----------------------------------------------------------------------------
(* Properties of two calls on one instance.                                *)

\* the number of pixels of raster r that are colour_rgb
PixelsOfColour(r, colour_rgb) ==
    Cardinality({c \in Cells : r[c[1]][c[2]] = colour_rgb})

(* C16: two calls of floyd_steinberg_dither on the same instance with the  *)
(* same input return the same raster and the same index map (the second    *)
(* call finds the instance as the first did and works on arrays of its     *)
(* own), so the statistics process_dashboard got from                      *)
(* analyze_color_distribution count the pixels of the raster it saves.     *)
C16_DeterministicCalls ==
    prev_return # None =>
        /\ original_array = prev_return.input
        /\ \A c \in Cells :
              Processed(c[1], c[2]) =>
                  /\ dithered[c[1]][c[2]] = prev_return.image[c[1]][c[2]]
                  /\ palette_indices[c[1]][c[2]] = prev_return.indices[c[1]][c[2]]
        /\ pc = "saved" =>
              /\ saved.dithered = prev_return.image
              /\ \A n \in ColorNames :
                    saved.stats[n].count = PixelsOfColour(saved.dithered, E6_PALETTE[n])

\* process_dashboard has saved a 3x2 raster whose dithering diffused error
\* and produced a colour other than black and white
C16_Witness ==
    /\ pc = "saved" /\ prev_return # None /\ width = 3 /\ height = 2
    /\ \E c \in Cells : ~Untouched(c[1], c[2])
    /\ \E c \in Cells : palette_indices[c[1]][c[2]] > 1

\* (xx, yy) is (px, py) or comes before it in row-major order
NotAfter(yy, xx, py, px) == yy < py \/ (yy = py /\ xx <= px)

\* the inputs of the two calls agree on p and on every pixel before p
SameInputUpTo(py, px) ==
    \A c \in Cells :
        NotAfter(c[1], c[2], py, px) =>
            original_array[c[1]][c[2]] = prev_return.input[c[1]][c[2]]

(* C20: when two calls on one instance get inputs that agree on pixel p    *)
(* and on every pixel before p in row-major order, they give p the same    *)
(* output colour and the same index, whatever the inputs are after p.      *)
C20_ScanCausality ==
    prev_return # None =>
        \A c \in Cells :
            (Processed(c[1], c[2]) /\ SameInputUpTo(c[1], c[2])) =>
                /\ dithered[c[1]][c[2]] = prev_return.image[c[1]][c[2]]
                /\ palette_indices[c[1]][c[2]] = prev_return.indices[c[1]][c[2]]

\* the second call has ended on an input that differs from the first in a
\* pixel other than the first one; the outputs differ in that pixel, and a
\* pixel before it had received diffused error
C20_Witness ==
    /\ prev_return # None /\ pc = "done"
    /\ \E c \in Cells :
          /\ c # <<0, 0>>
          /\ original_array[c[1]][c[2]] # prev_return.input[c[1]][c[2]]
          /\ dithered[c[1]][c[2]] # prev_return.image[c[1]][c[2]]
          /\ \E b \in Cells :
                /\ b # c /\ NotAfter(b[1], b[2], c[1], c[2])
                /\ ~Untouched(b[1], b[2])

-----------------------------------------------------------------------------
(* Properties of the preserved branch and of the arrays of the pass.       *)

(* C21: the index-0 fallback of the preserved branch is never taken.       *)
(* Whenever the policy preserves a pixel its colour is not null and is one *)
(* of the six palette triples, so the index search finds a palette entry   *)
(* that matches it: the index written is the position of that colour, and  *)
(* it is 0 only when the colour is black.                                  *)
C21_FallbackUnreachable ==
    \A c \in Cells :
        (Processed(c[1], c[2]) /\ Preserved(c[1], c[2])) =>
            LET colour == PolicyColor(c[1], c[2])
            IN  /\ colour # None
                /\ colour \in SixTriples
                /\ \E idx \in PaletteIdx : AllClose(PALETTE_ARRAY[idx], colour)
                /\ PALETTE_ARRAY[palette_indices[c[1]][c[2]]] = colour
                /\ (colour # <<0, 0, 0>> => palette_indices[c[1]][c[2]] # 0)

\* the pass has ended with a pixel preserved as red by the palette match
\* (index 2) and a pixel preserved as white by the threshold (index 1)
C21_Witness ==
    /\ pc = "done"
    /\ \E c \in Cells :
          /\ Preserved(c[1], c[2])
          /\ original_array[c[1]][c[2]] = <<250, 5, 5>>
          /\ PolicyColor(c[1], c[2]) = <<255, 0, 0>>
          /\ palette_indices[c[1]][c[2]] = 2
    /\ \E c \in Cells :
          /\ Preserved(c[1], c[2])
          /\ PolicyColor(c[1], c[2]) = <<255, 255, 255>>
          /\ palette_indices[c[1]][c[2]] = 1

(* C22: the copy of the original raster that the preservation decisions   *)
(* read is never modified: no step of the pass changes any cell of it, so  *)
(* after any number of steps it still is the input raster; what error      *)
(* diffusion writes goes to the working buffer.                            *)
C22_OriginalNeverModified ==
    [][/\ original_array' = original_array
       /\ pc = "loop" =>
             \A c \in Cells :
                 img_array'[c[1]][c[2]] # img_array[c[1]][c[2]] =>
                     /\ IsTarget(c[1], c[2])
                     /\ original_array'[c[1]][c[2]] = original_array[c[1]][c[2]]]_vars

\* the pass over a 3x2 raster has ended with working cells that diffusion
\* moved away from the original values
C22_Witness ==
    /\ pc = "done" /\ width = 3 /\ height = 2
    /\ \E c \in Cells : ~Untouched(c[1], c[2])
    /\ \E c \in Cells : Preserved(c[1], c[2]) /\ ~Untouched(c[1], c[2])

-----------------------------------------------------------------------------
(* floyd_steinberg_dither on an instance built with preserve_bw = False,   *)
(* on rasters that hold pure black and pure white next to colours whose    *)
(* quantization error is large.                                            *)

DisabledValues ==
    {<<0, 0, 0>>, <<255, 255, 255>>, <<0, 200, 200>>, <<100, 150, 200>>}

InitDisabled == InitLive /\ ~cfg.preserve_bw

CallDitherDisabled ==
    /\ pc = "call"
    /\ \E s \in Shapes, bg \in DisabledValues, v1 \in DisabledValues :
          \E c1 \in (0 .. s[2] - 1) \X (0 .. s[1] - 1) :
              EnterDither([yy \in 0 .. s[2] - 1 |-> [xx \in 0 .. s[1] - 1 |->
                              IF <<yy, xx>> = c1 THEN v1 ELSE bg]], s[1], s[2])
    /\ UNCHANGED <<cfg, color_counts, q_pixel, q_result, prev_return, saved>>

NextDisabled == CallDitherDisabled \/ DitherPixel

SpecDisabled == InitDisabled /\ [][NextDisabled]_vars

(* C23: with preservation disabled the policy preserves no pixel, be it    *)
(* pure black, pure white or an exact palette colour: every iteration      *)
(* quantizes its pixel from the working value and diffuses the error, so a *)
(* pure-black or pure-white input pixel can come out in another colour.    *)
C23_DisabledPreservesNothing ==
    [][(pc = "loop" /\ ~cfg.preserve_bw) =>
          /\ \A p \in SixTriples \cup {original_array[y][x]} :
                should_preserve_pixel(cfg, p) = [preserve |-> FALSE, color |-> None]
          /\ QuantizedNormally]_vars

\* with preservation disabled, a processed pixel whose input was pure black
\* or pure white has been output in a different colour
C23_Witness ==
    /\ ~cfg.preserve_bw
    /\ \E c \in Cells :
          /\ Processed(c[1], c[2])
          /\ original_array[c[1]][c[2]] \in {<<0, 0, 0>>, <<255, 255, 255>>}
          /\ dithered[c[1]][c[2]] # original_array[c[1]][c[2]]

\* the cells of the index map that hold the index of colour name n
CellsWithIndexOf(n) ==
    {c \in Cells : PALETTE_NAMES[palette_indices[c[1]][c[2]] + 1] = n}

(* C24: for each palette colour the count analyze_color_distribution       *)
(* returns is the number of cells of the index map of its dithering pass   *)
(* that hold the colour's index, and the table has an entry for each of    *)
(* the six colour names, also for those that count 0.                      *)
C24_CountsMatchIndexMap ==
    color_counts # None =>
        /\ DOMAIN color_counts = ColorNames
        /\ \A n \in ColorNames :
              color_counts[n].count = Cardinality(CellsWithIndexOf(n))

\* the table of a 3x2 raster in which three colours occur and blue does not
C24_Witness ==
    /\ pc = "analyzed" /\ width = 3 /\ height = 2
    /\ color_counts["blue"].count = 0
    /\ CellsWithIndexOf("blue") = {}
    /\ Cardinality({n \in ColorNames : color_counts[n].count > 0}) >= 3

-----------------------------------------------------------------------------
(* Construction of OptimizedE6Dithering, for every 8-bit text_threshold    *)
(* and both values of preserve_text; q_pixel holds the two arguments.      *)

InitConstruct ==
    /\ cfg = None
    /\ width = 0
    /\ height = 0
    /\ original_array = None
    /\ img_array = None
    /\ dithered = None
    /\ palette_indices = None
    /\ x = 0
    /\ y = 0
    /\ pc = "idle"
    /\ color_counts = None
    /\ q_pixel \in BOOLEAN \X (0 .. 255)
    /\ q_result = None
    /\ visited = <<>>
    /\ prev_return = None
    /\ saved = None

\* OptimizedE6Dithering(preserve_text=q_pixel[1], text_threshold=q_pixel[2])
CallOptimizedInit ==
    /\ pc = "idle"
    /\ cfg = None
    /\ cfg' = OptimizedE6Dithering(q_pixel[1], q_pixel[2])
    /\ UNCHANGED <<width, height, original_array, img_array, dithered,
                   palette_indices, x, y, pc, color_counts, q_pixel, q_result,
                   visited, prev_return, saved>>

NextConstruct == CallOptimizedInit

SpecConstruct == InitConstruct /\ [][NextConstruct]_vars

-----------------------------------------------------------------------------
(* floyd_steinberg_dither called on the raster its previous call returned. *)

\* the instances of the pipeline and one whose tolerance reaches from one
\* palette entry to the next
IdemConfigs == Configs \cup {SpectraE6Dithering(TRUE, 260)}

IdemValues == PixelValues \cup {<<255, 128, 0>>}

InitIdempotent ==
    /\ cfg \in IdemConfigs
    /\ width = 0
    /\ height = 0
    /\ original_array = None
    /\ img_array = None
    /\ dithered = None
    /\ palette_indices = None
    /\ x = 0
    /\ y = 0
    /\ pc = "call"
    /\ color_counts = None
    /\ q_pixel = None
    /\ q_result = None
    /\ visited = <<>>
    /\ prev_return = None
    /\ saved = None

\* the first call, on a raster of a uniform background with one feature
DitherOnce ==
    /\ pc = "call"
    /\ \E s \in Shapes, bg \in IdemValues, v1 \in IdemValues :
          \E c1 \in (0 .. s[2] - 1) \X (0 .. s[1] - 1) :
              EnterDither([yy \in 0 .. s[2] - 1 |-> [xx \in 0 .. s[1] - 1 |->
                              IF <<yy, xx>> = c1 THEN v1 ELSE bg]], s[1], s[2])
    /\ UNCHANGED <<cfg, color_counts, q_pixel, q_result, prev_return, saved>>

\* the next call on the same instance, on the raster the first returned
DitherAgain ==
    /\ pc = "done"
    /\ prev_return = None
    /\ prev_return' = CallRecord
    /\ EnterDither(dithered, width, height)
    /\ UNCHANGED <<cfg, color_counts, q_pixel, q_result, saved>>

NextIdempotent == DitherOnce \/ DitherPixel \/ DitherAgain

SpecIdempotent == InitIdempotent /\ [][NextIdempotent]_vars

\* the second call has so far returned what the first returned
SecondCallAgrees ==
    /\ original_array = prev_return.image
    /\ \A c \in Cells :
          Processed(c[1], c[2]) =>
              /\ dithered[c[1]][c[2]] = prev_return.image[c[1]][c[2]]
              /\ palette_indices[c[1]][c[2]] = prev_return.indices[c[1]][c[2]]

\* C26 as stated in the specification: under every configuration the call
\* on the returned raster returns the same raster and the same index map
C26_AsStated == prev_return # None => SecondCallAgrees

(* C26: dithering is idempotent when preservation is disabled, and when it *)
(* is enabled with a tolerance below 255, the least distance between two   *)
(* palette entries (both shipped configurations are such): feeding the     *)
(* raster floyd_steinberg_dither returned back into it with the same       *)
(* configuration returns the same raster and the same index map.           *)
C26_IdempotentBelow255 ==
    (prev_return # None /\ (~cfg.preserve_bw \/ cfg.bw_tolerance < 255)) =>
        SecondCallAgrees

\* the second call has ended on the raster of a first call that had
\* changed its 3x2 input, diffused error and produced a colour other than
\* black and white
C26_Witness ==
    /\ pc = "done" /\ prev_return # None /\ width = 3 /\ height = 2
    /\ cfg.bw_tolerance < 255
    /\ prev_return.input # prev_return.image
    /\ dithered = prev_return.image
    /\ palette_indices = prev_return.indices
    /\ \E c \in Cells : palette_indices[c[1]][c[2]] > 1
    /\ \E c \in Cells :
          /\ ~should_preserve_pixel(cfg, prev_return.input[c[1]][c[2]]).preserve
          /\ PixelFromInt(prev_return.input[c[1]][c[2]])
                # PixelFromInt(prev_return.image[c[1]][c[2]])

-----------------------------------------------------------------------------
(* The preservation policy against the nearest palette colour.             *)

\* the two configurations the repository builds: the base class with its
\* defaults and OptimizedE6Dithering with its defaults
ShippedConfigs == {SpectraE6Dithering(TRUE, 10), OptimizedE6Dithering(TRUE, 40)}

(* C27: under the two shipped configurations (thresholds 30 / 225 with     *)
(* tolerance 10, thresholds 40 / 215 with tolerance 5) the colour the      *)
(* policy gives a preserved pixel is the palette entry that                *)
(* find_nearest_palette_color returns for the pixel's original value, and  *)
(* at most one palette entry lies within the tolerance of any pixel, so    *)
(* the first match of is_exact_palette_match is the only match.            *)
C27_PreservedIsNearest ==
    (q_result # None /\ cfg \in ShippedConfigs) =>
        /\ Cardinality(NearEntries(q_pixel)) <= 1
        /\ q_result.preserve =>
              q_result.color
                  = find_nearest_palette_color(PixelFromInt(q_pixel), PALETTE_ARRAY).color

\* the optimized policy has preserved a pixel on its white threshold as
\* white while the palette match alone would not have preserved it
C27_Witness ==
    /\ q_result # None
    /\ cfg = OptimizedE6Dithering(TRUE, 40)
    /\ q_pixel = <<215, 255, 215>>
    /\ NearEntries(q_pixel) = {}
    /\ q_result = [preserve |-> TRUE, color |-> <<255, 255, 255>>]

-----------------------------------------------------------------------------
(* OptimizedE6Dithering.preprocess_for_e6.  The array holds float32 copies *)
(* of 8-bit channels, so every value below is an integer; the mean of the  *)
(* three channels is compared through three times its value, which is      *)
(* exact: a mean that is 20 away from a channel, or equal to 128, is an    *)
(* integer, and any other mean is at least 1/3 away from the comparison    *)
(* point.                                                                  *)

\* variant: near-gray pixels are set to the threshold values, not to pure
\* black and pure white
PreprocessPixelToThreshold(self, pixel) ==
    LET black_mask == AllAtMost(pixel, self.BLACK_THRESHOLD)
        p1 == IF black_mask THEN <<0, 0, 0>> ELSE pixel
        white_mask == AllAtLeast(p1, self.WHITE_THRESHOLD)
        p2 == IF white_mask THEN <<255, 255, 255>> ELSE p1
        sum == p2[1] + p2[2] + p2[3]
        gray_mask == /\ Abs(3 * p2[1] - sum) < 60
                     /\ Abs(3 * p2[2] - sum) < 60
                     /\ Abs(3 * p2[3] - sum) < 60
                     /\ ~black_mask /\ ~white_mask
        p3 == IF gray_mask
              THEN IF sum < 384
                   THEN <<self.BLACK_THRESHOLD, self.BLACK_THRESHOLD, self.BLACK_THRESHOLD>>
                   ELSE <<self.WHITE_THRESHOLD, self.WHITE_THRESHOLD, self.WHITE_THRESHOLD>>
              ELSE p2
    IN  <<ToUint8(p3[1]), ToUint8(p3[2]), ToUint8(p3[3])>>

\* what preprocess_for_e6 makes of one pixel: the black mask, then the
\* white mask on the array the black mask has been applied to, then the
\* gray mask on the array both have been applied to
PreprocessPixel(self, pixel) ==
    LET black_mask == AllAtMost(pixel, self.BLACK_THRESHOLD)
        p1 == IF black_mask THEN <<0, 0, 0>> ELSE pixel
        white_mask == AllAtLeast(p1, self.WHITE_THRESHOLD)
        p2 == IF white_mask THEN <<255, 255, 255>> ELSE p1
        sum == p2[1] + p2[2] + p2[3]
        gray_mask == /\ Abs(3 * p2[1] - sum) < 60
                     /\ Abs(3 * p2[2] - sum) < 60
                     /\ Abs(3 * p2[3] - sum) < 60
                     /\ ~black_mask /\ ~white_mask
        p3 == IF gray_mask
              THEN IF sum < 384 THEN <<0, 0, 0>> ELSE <<255, 255, 255>>
              ELSE p2
    IN  <<ToUint8(p3[1]), ToUint8(p3[2]), ToUint8(p3[3])>>

preprocess_for_e6(self, image, w, h) ==
    [yy \in 0 .. h - 1 |-> [xx \in 0 .. w - 1 |-> PreprocessPixel(self, image[yy][xx])]]

\* instances preprocess_for_e6 is called on
PreprocessConfigs ==
    {OptimizedE6Dithering(TRUE, 40), OptimizedE6Dithering(TRUE, 128),
     OptimizedE6Dithering(TRUE, 255), OptimizedE6Dithering(FALSE, 40)}

\* 8-bit pixels on both sides of the thresholds, of the near-gray bound and
\* of the brightness split, and colours
PreprocessValues ==
    {<<0, 0, 0>>, <<255, 255, 255>>, <<40, 40, 40>>, <<10, 40, 41>>,
     <<100, 130, 130>>, <<101, 130, 130>>, <<127, 128, 128>>, <<128, 128, 128>>,
     <<215, 230, 255>>, <<250, 5, 5>>, <<100, 150, 200>>}

InitPreprocess ==
    /\ cfg \in PreprocessConfigs
    /\ width = 0
    /\ height = 0
    /\ original_array = None
    /\ img_array = None
    /\ dithered = None
    /\ palette_indices = None
    /\ x = 0
    /\ y = 0
    /\ pc = "call"
    /\ color_counts = None
    /\ q_pixel = None
    /\ q_result = None
    /\ visited = <<>>
    /\ prev_return = None
    /\ saved = None

\* preprocess_for_e6 on a raster of a uniform background with one feature;
\* q_pixel holds the image passed and q_result the image returned
CallPreprocess ==
    /\ pc = "call"
    /\ \E s \in Shapes, bg \in PreprocessValues, v1 \in PreprocessValues :
          \E c1 \in (0 .. s[2] - 1) \X (0 .. s[1] - 1) :
              LET image == [yy \in 0 .. s[2] - 1 |-> [xx \in 0 .. s[1] - 1 |->
                               IF <<yy, xx>> = c1 THEN v1 ELSE bg]]
              IN  /\ q_pixel' = image
                  /\ q_result' = preprocess_for_e6(cfg, image, s[1], s[2])
                  /\ width' = s[1]
                  /\ height' = s[2]
    /\ pc' = "preprocessed"
    /\ UNCHANGED <<cfg, original_array, img_array, dithered, palette_indices,
                   x, y, color_counts, visited, prev_return, saved>>

\* preprocess_for_e6 on the image its previous call returned
PreprocessAgain ==
    /\ pc = "preprocessed"
    /\ prev_return = None
    /\ prev_return' = [input |-> q_pixel, image |-> q_result, indices |-> None]
    /\ q_pixel' = q_result
    /\ q_result' = preprocess_for_e6(cfg, q_result, width, height)
    /\ UNCHANGED <<cfg, width, height, original_array, img_array, dithered,
                   palette_indices, x, y, pc, color_counts, visited, saved>>

NextPreprocess == CallPreprocess \/ PreprocessAgain

SpecPreprocess == InitPreprocess /\ [][NextPreprocess]_vars

\* all channels of p are within 20 of the mean of its channels
NearGray(p) ==
    \A ch \in 1 .. 3 : Abs(3 * p[ch] - (p[1] + p[2] + p[3])) < 60

(* C28: preprocess_for_e6 is idempotent on 8-bit RGB input.  Every pixel   *)
(* it returns is pure black, pure white, or the input pixel unchanged, and *)
(* an unchanged pixel is neither within a threshold nor near-gray (all     *)
(* channels within 20 of the channel mean); applied to the image it        *)
(* returned, it returns that image unchanged.                              *)
C28_PreprocessIdempotent ==
    q_result # None =>
        /\ \A c \in Cells :
              LET in  == q_pixel[c[1]][c[2]]
                  out == q_result[c[1]][c[2]]
              IN  \/ out = <<0, 0, 0>>
                  \/ out = <<255, 255, 255>>
                  \/ /\ out = in
                     /\ ~AllLE(in, cfg.BLACK_THRESHOLD)
                     /\ ~AllGE(in, cfg.WHITE_THRESHOLD)
                     /\ ~NearGray(in)
        /\ prev_return # None =>
              /\ q_pixel = prev_return.image
              /\ q_result = prev_return.image

\* the second call has returned, on the image of a first call that had
\* forced a near-gray pixel to black, forced a pixel on the white threshold
\* to white, and left a coloured pixel unchanged
C28_Witness ==
    /\ prev_return # None
    /\ q_result = prev_return.image
    /\ \E c \in Cells :
          /\ prev_return.input[c[1]][c[2]] = <<101, 130, 130>>
          /\ q_result[c[1]][c[2]] = <<0, 0, 0>>
    /\ \E c \in Cells :
          /\ prev_return.input[c[1]][c[2]] = <<100, 130, 130>>
          /\ q_result[c[1]][c[2]] = <<100, 130, 130>>

-----------------------------------------------------------------------------
(* The dithering pipeline of render_enhanced_dashboard: an instance        *)
(* OptimizedE6Dithering(preserve_text=True), preprocess_for_e6 on the      *)
(* rendered image, then process_dashboard on the preprocessed image.       *)

\* variant: the instance is built with preserve_text=False
PipelineDithererNoText == OptimizedE6Dithering(FALSE, 40)

\* ditherer = OptimizedE6Dithering(preserve_text=True), text_threshold at
\* its default
PipelineDitherer == OptimizedE6Dithering(TRUE, 40)

InitPipeline ==
    /\ cfg = PipelineDitherer
    /\ width = 0
    /\ height = 0
    /\ original_array = None
    /\ img_array = None
    /\ dithered = None
    /\ palette_indices = None
    /\ x = 0
    /\ y = 0
    /\ pc = "call"
    /\ color_counts = None
    /\ q_pixel = None
    /\ q_result = None
    /\ visited = <<>>
    /\ prev_return = None
    /\ saved = None

\* process_dashboard(preprocessed, ...): its first statement of effect is
\* the dithering call inside analyze_color_distribution
PipelineProcessDashboard ==
    /\ pc = "preprocessed"
    /\ EnterDither(q_result, width, height)
    /\ UNCHANGED <<cfg, color_counts, q_pixel, q_result, prev_return, saved>>

NextPipeline ==
    \/ CallPreprocess
    \/ PipelineProcessDashboard
    \/ DitherPixel
    \/ AnalyzeColorDistribution
    \/ DashboardDither
    \/ DashboardSave

SpecPipeline == InitPipeline /\ [][NextPipeline]_vars

\* preprocess_for_e6 has returned pixel (xx, yy) as pure black or pure white
PureAfterPreprocess(yy, xx) ==
    q_result[yy][xx] \in {<<0, 0, 0>>, <<255, 255, 255>>}

(* C29: in the pipeline of render_enhanced_dashboard every pixel that      *)
(* preprocess_for_e6 returned as pure black or pure white, the ones it     *)
(* forced included, is output by the iteration of floyd_steinberg_dither   *)
(* on it in exactly that colour, and that iteration adds nothing to any    *)
(* working cell, whatever error the pixel has received from its            *)
(* neighbours.                                                             *)
C29_ForcedPixelsKept ==
    [][(pc = "loop" /\ PureAfterPreprocess(y, x)) =>
          /\ dithered'[y][x] = q_result[y][x]
          /\ NothingAdded]_vars

\* the pipeline has saved a raster in which a pixel that preprocess_for_e6
\* had forced to pure black or white kept that colour although its working
\* cell had received error from a neighbour
C29_Witness ==
    /\ pc = "saved"
    /\ \E c \in Cells :
          /\ q_pixel[c[1]][c[2]] # q_result[c[1]][c[2]]
          /\ PureAfterPreprocess(c[1], c[2])
          /\ ~Untouched(c[1], c[2])
          /\ saved.dithered[c[1]][c[2]] = q_result[c[1]][c[2]]

-----------------------------------------------------------------------------
(* The grayscale rendering of the index map that process_dashboard saves.  *)

(* C30: scaling the index map by 42 in an unsigned 8-bit cell never        *)
(* overflows for an index 0..5 (the largest value is 210 <= 255) and sends *)
(* distinct indices to distinct gray levels, so the index of every cell is *)
(* recoverable from the saved value, as the value divided by 42.           *)
C30_PreviewScaling ==
    /\ \A i \in PaletteIdx :
          /\ PaletteGray(i) = i * 42
          /\ PaletteGray(i) <= 210
          /\ \A j \in PaletteIdx : i # j => PaletteGray(i) # PaletteGray(j)
    /\ saved # None =>
          \A c \in Cells :
              /\ saved.palette[c[1]][c[2]] = palette_indices[c[1]][c[2]] * 42
              /\ saved.palette[c[1]][c[2]] \div 42 = palette_indices[c[1]][c[2]]

\* a saved index map that holds the largest index, 5 as gray level 210,
\* next to index 1 as gray level 42
C30_Witness ==
    /\ pc = "saved"
    /\ \E c \in Cells :
          palette_indices[c[1]][c[2]] = 5 /\ saved.palette[c[1]][c[2]] = 210
    /\ \E c \in Cells :
          palette_indices[c[1]][c[2]] = 1 /\ saved.palette[c[1]][c[2]] = 42

=============================================================================
